---------------------------- MODULE Spec2Model ----------------------------
(***************************************************************************)
(* Model of view/python_core/measurement_list/importers.py: the importers  *)
(* that turn Till Vision vws.log records and Zeiss LSM files into rows of  *)
(* a measurement list.                                                     *)
(*                                                                         *)
(* Python strings are sequences of one-character strings, so that          *)
(* endswith, startswith, slicing and split are computed, not assumed.      *)
(* A row holds the columns Measu, DBB1, dbb2, Analyze and Cycle; the       *)
(* columns copied through unchanged (Label, Lambda, UTC, MTime, PxSzX,     *)
(* PxSzY) are left out.                                                    *)
(***************************************************************************)
EXTENDS Integers, Sequences, FiniteSets, TLC

\* Bounds of the model: the files of one import_metadata call, the records
\* they hold together (a file counts as one record at least), the files chosen
\* in the file dialog and the largest experiment-type code tried.
MaxFiles == 2
MaxRows == 4
MaxChosen == 2
MaxCode == 40
\* the records of one sequence a file yields: two such sequences are paired
MaxRecords == MaxRows \div 2

(***************************************************************************)
(* Strings                                                                 *)
(***************************************************************************)
endswith(s, suf) ==
    /\ Len(s) >= Len(suf)
    /\ SubSeq(s, Len(s) - Len(suf) + 1, Len(s)) = suf

startswith(s, pre) ==
    /\ Len(s) >= Len(pre)
    /\ SubSeq(s, 1, Len(pre)) = pre

\* s[-2:]
LastTwo(s) == IF Len(s) <= 2 THEN s ELSE SubSeq(s, Len(s) - 1, Len(s))

RECURSIVE SplitFrom(_, _, _, _)
SplitFrom(s, seps, i, cur) ==
    IF i > Len(s) THEN <<cur>>
    ELSE IF s[i] \in seps THEN <<cur>> \o SplitFrom(s, seps, i + 1, <<>>)
    ELSE SplitFrom(s, seps, i + 1, Append(cur, s[i]))

\* str.split on any of the separators seps, empty pieces kept
split(s, seps) == SplitFrom(s, seps, 1, <<>>)

Dot == <<".">>

\* pathlib: the parts of a path without a drive: the root, when the path starts
\* with a separator, then the components that are neither empty nor "."
PathParts(s, seps, root) ==
    LET comps == SelectSeq(split(s, seps), LAMBDA c : c # <<>> /\ c # Dot)
    IN  IF s # <<>> /\ s[1] \in seps THEN <<root>> \o comps ELSE comps

WindowsSeps == {"\\", "/"}
PosixSeps == {"/"}
WindowsRoot == <<"\\">>
PosixRoot == <<"/">>

\* pl.PureWindowsPath(fle).parts
PureWindowsPath(fle) == PathParts(fle, WindowsSeps, WindowsRoot)

\* pl.Path(fle).parts
Path(fle) == PathParts(fle, PosixSeps, PosixRoot)

IsAnchor(part) == part = WindowsRoot \/ part = PosixRoot

\* PurePath.name
PathName(parts) ==
    IF parts = <<>> \/ IsAnchor(parts[Len(parts)]) THEN <<>> ELSE parts[Len(parts)]

\* PurePath.parent
PathParent(parts) ==
    IF parts = <<>> \/ IsAnchor(parts[Len(parts)]) THEN parts
    ELSE SubSeq(parts, 1, Len(parts) - 1)

\* the largest index of a period in name, 0 when there is none
RECURSIVE RFindDot(_, _)
RFindDot(name, i) ==
    IF i = 0 THEN 0 ELSE IF name[i] = "." THEN i ELSE RFindDot(name, i - 1)

\* PurePath.stem: the name without its last suffix; a leading or a trailing
\* period starts no suffix
PathStem(parts) ==
    LET name == PathName(parts)
        i == RFindDot(name, Len(name))
    IN  IF 1 < i /\ i < Len(name) THEN SubSeq(name, 1, i - 1) ELSE name

(***************************************************************************)
(* calculate_dt_from_timing_ms and additional_cols_func                    *)
(***************************************************************************)
Digits == {"0", "1", "2", "3", "4", "5", "6", "7", "8", "9"}

DigitVal(c) ==
    CASE c = "0" -> 0 [] c = "1" -> 1 [] c = "2" -> 2 [] c = "3" -> 3
      [] c = "4" -> 4 [] c = "5" -> 5 [] c = "6" -> 6 [] c = "7" -> 7
      [] c = "8" -> 8 [] c = "9" -> 9

RECURSIVE DecimalVal(_, _)
DecimalVal(tok, n) ==
    IF n = 0 THEN 0 ELSE 10 * DecimalVal(tok, n - 1) + DigitVal(tok[n])

\* float(x) for a token over digits, blanks and letters: a value for a
\* non-empty run of digits, ValueError for anything else
FloatOk(tok) == tok # <<>> /\ \A i \in 1..Len(tok) : tok[i] \in Digits
FloatVal(tok) == DecimalVal(tok, Len(tok))

RECURSIVE LStrip(_)
LStrip(s) == IF s # <<>> /\ s[1] = " " THEN LStrip(Tail(s)) ELSE s

RECURSIVE RStrip(_)
RStrip(s) ==
    IF s # <<>> /\ s[Len(s)] = " " THEN RStrip(SubSeq(s, 1, Len(s) - 1)) ELSE s

\* str.strip()
strip(s) == RStrip(LStrip(s))

\* dt is a quotient of two floats: kept as numerator n over denominator d
Frac(n, d) == [n |-> n, d |-> d]
FracEq(a, b) == a.n * b.d = b.n * a.d
MinusOne == Frac(-1, 1)

\* [raised |-> TRUE] when the function raises (ValueError of float,
\* ZeroDivisionError of a single timestamp)
calculate_dt_from_timing_ms(timing_ms) ==
    LET times == split(strip(timing_ms), {" "})
    IN  IF \E i \in 1..Len(times) : ~FloatOk(times[i])
        THEN [raised |-> TRUE, dt |-> MinusOne]
        ELSE IF Len(times) - 1 = 0
        THEN [raised |-> TRUE, dt |-> MinusOne]
        ELSE [raised |-> FALSE,
              dt |-> Frac(FloatVal(times[Len(times)]) - FloatVal(times[1]),
                          Len(times) - 1)]

additional_cols_func(s) ==
    LET r == calculate_dt_from_timing_ms(s.Timing_ms)
    IN  IF r.raised THEN [dt |-> MinusOne, Analyze |-> 0]
        ELSE [dt |-> r.dt, Analyze |-> 1]

(***************************************************************************)
(* TillImporter                                                            *)
(***************************************************************************)
Ext_pst == <<".", "p", "s", "t">>
Ext_ps == <<".", "p", "s">>
Ext_lsm == <<".", "l", "s", "m">>

\* TillImporter.movie_data_extensions
TillMovieDataExtensions == <<Ext_pst, Ext_ps>>
\* LSMImporter.movie_data_extensions
LSMMovieDataExtensions == <<Ext_lsm>>

WrongExtension ==
    <<"w", "r", "o", "n", "g", " ", "e", "x", "t", "e", "n", "s", "i", "o", "n">>

Slash == <<"/">>

\* The outcome of a call: raised (an exception left it), else the pair
\* (analyze, dbb1)
Resolved(analyze, dbb1) == [raised |-> FALSE, analyze |-> analyze, dbb1 |-> dbb1]
ResolveRaised == [raised |-> TRUE, analyze |-> 0, dbb1 |-> <<>>]

\* TillImporter.get_path_relative_to_data_dir: the first extension that fle ends
\* with decides; parts[-2] raises IndexError on a path of one part
TillImporter_get_path_relative_to_data_dir(fle) ==
    IF \E k \in 1..Len(TillMovieDataExtensions) :
           endswith(fle, TillMovieDataExtensions[k])
    THEN LET fle_path == PureWindowsPath(fle)
         IN  IF Len(fle_path) < 2 THEN ResolveRaised
             ELSE Resolved(1, fle_path[Len(fle_path) - 1] \o Slash
                                 \o PathStem(fle_path))
    ELSE Resolved(0, WrongExtension)

\* the location handed to the resolver: a t is appended when the last two
\* characters are ps
ExpectedDataFile(location) ==
    IF LastTwo(location) = <<"p", "s">> THEN Append(location, "t") ELSE location

\* the optional entry of a mapping: <<>> when the key is absent, <<v>> when set
Absent == <<>>
GetOr(opt, dflt) == IF opt = Absent THEN dflt ELSE opt[1]

\* a slip: the result of the resolver is left out of the product
ConvertedAnalyze_DefaultOnly(analyze, default_row) == GetOr(default_row.Analyze, 1)

\* the Analyze value convert_vws_names_to_lst_names writes
ConvertedAnalyze(analyze, default_row) == analyze * GetOr(default_row.Analyze, 1)

\* TillImporter.convert_vws_names_to_lst_names
convert_vws_names_to_lst_names(vws_measurement_series, default_row) ==
    LET expected_data_file == ExpectedDataFile(vws_measurement_series.Location)
        res == TillImporter_get_path_relative_to_data_dir(expected_data_file)
    IN  [raised |-> res.raised,
         expected_data_file |-> expected_data_file,
         analyze |-> res.analyze,
         row |-> [Measu |-> vws_measurement_series.index + 1,
                  DBB1 |-> res.dbb1,
                  dbb2 |-> default_row.dbb2,
                  Analyze |-> ConvertedAnalyze(res.analyze, default_row),
                  Cycle |-> vws_measurement_series.dt]]

(***************************************************************************)
(* VWSDataManager: the reader of a vws.log file, an external collaborator. *)
(* A file holds its records in acquisition order; the reader returns the   *)
(* records that pass measurement_filter, each with its position in the     *)
(* file as index and with the columns additional_cols_func computes.       *)
(***************************************************************************)
Series(rec, index) ==
    LET cols == additional_cols_func(rec)
    IN  [index |-> index, Location |-> rec.Location,
         dt |-> cols.dt, Analyze |-> cols.Analyze]

\* the records of recs from position i on that pass the filter; the record at
\* position j (from 1) has index first + step * (j - 1)
RECURSIVE Filtered(_, _, _, _)
Filtered(recs, i, first, step) ==
    IF i > Len(recs) THEN <<>>
    ELSE (IF recs[i].pass THEN <<Series(recs[i], first + step * (i - 1))>>
          ELSE <<>>) \o Filtered(recs, i + 1, first, step)

\* VWSDataManager(fle).get_all_metadata(filter, additional_cols_func)
get_all_metadata(fle) == Filtered(fle.a, 1, 0, 1)

\* VWSDataManager(fle).get_metadata_two_wavelengths((340, 380), filter,
\* additional_cols_func): the 340 nm and the 380 nm records, which alternate in
\* the file
get_metadata_two_wavelengths(fle) ==
    <<Filtered(fle.a, 1, 0, 2), Filtered(fle.b, 1, 1, 2)>>

(***************************************************************************)
(* read_single_measurement_metadata of the three importers                 *)
(***************************************************************************)
Min(x, y) == IF x <= y THEN x ELSE y

\* the outcome of reading one file: raised, else the rows of this_lst_frame
Frame(rows) == [raised |-> FALSE, rows |-> rows]
FrameRaised == [raised |-> TRUE, rows |-> <<>>]

\* TillImporterOneWavelength.read_single_measurement_metadata
OneWavelength_read_single_measurement_metadata(fle, fle_ind, default_row) ==
    LET measurements == get_all_metadata(fle)
        lst_line == [i \in 1..Len(measurements) |->
                        convert_vws_names_to_lst_names(measurements[i], default_row)]
    IN  IF \E i \in 1..Len(measurements) : lst_line[i].raised THEN FrameRaised
        ELSE Frame([i \in 1..Len(measurements) |-> lst_line[i].row])

\* a slip: the 380 nm row keeps the Analyze value of its conversion
PairRows_AnalyzeKept(lst_line_wl340, lst_line_wl380) ==
    << [lst_line_wl340 EXCEPT !.dbb2 = <<lst_line_wl380.DBB1>>], lst_line_wl380 >>

\* a slip: dbb2 is taken from the 340 nm row itself
PairRows_OwnPath(lst_line_wl340, lst_line_wl380) ==
    << [lst_line_wl340 EXCEPT !.dbb2 = <<lst_line_wl340.DBB1>>],
       [lst_line_wl380 EXCEPT !.Analyze = 0] >>

\* the two rows appended for one pair: the 340 nm row takes the 380 nm row's
\* DBB1 as dbb2, the 380 nm row gets Analyze = 0
PairRows(lst_line_wl340, lst_line_wl380) ==
    << [lst_line_wl340 EXCEPT !.dbb2 = <<lst_line_wl380.DBB1>>],
       [lst_line_wl380 EXCEPT !.Analyze = 0] >>

RECURSIVE Flatten(_)
Flatten(ss) == IF ss = <<>> THEN <<>> ELSE Head(ss) \o Flatten(Tail(ss))

\* TillImporterTwoWavelength.read_single_measurement_metadata: zip stops at the
\* shorter sequence
TwoWavelength_read_single_measurement_metadata(fle, fle_ind, default_row) ==
    LET both == get_metadata_two_wavelengths(fle)
        n == Min(Len(both[1]), Len(both[2]))
        lst_line_wl340 == [i \in 1..n |->
                              convert_vws_names_to_lst_names(both[1][i], default_row)]
        lst_line_wl380 == [i \in 1..n |->
                              convert_vws_names_to_lst_names(both[2][i], default_row)]
    IN  IF \E i \in 1..n : lst_line_wl340[i].raised \/ lst_line_wl380[i].raised
        THEN FrameRaised
        ELSE Frame(Flatten([i \in 1..n |->
                       PairRows(lst_line_wl340[i].row, lst_line_wl380[i].row)]))

\* the number -1 that LSMImporter returns in place of a path, written as a
\* string since DBB1 holds strings in every other case
LsmNoPath == <<"-", "1">>

\* LSMImporter.get_path_relative_to_data_dir: parts[-3] raises IndexError on a
\* path of fewer than three parts
LSMImporter_get_path_relative_to_data_dir(fle) ==
    IF \E k \in 1..Len(LSMMovieDataExtensions) :
           endswith(fle, LSMMovieDataExtensions[k])
    THEN LET fle_path == PureWindowsPath(fle)
             n == Len(fle_path)
         IN  IF n < 3 THEN ResolveRaised
             ELSE Resolved(1, fle_path[n - 2] \o Slash \o fle_path[n - 1]
                                 \o Slash \o PathStem(fle_path))
    ELSE Resolved(0, LsmNoPath)

\* LSMImporter.convert_lsm_metadata_to_lst_row: TimeIntervall is in seconds
convert_lsm_metadata_to_lst_row(measu, fle, lsm_metadata, default_row) ==
    LET res == LSMImporter_get_path_relative_to_data_dir(fle)
    IN  [raised |-> res.raised,
         row |-> [Measu |-> measu,
                  DBB1 |-> res.dbb1,
                  dbb2 |-> default_row.dbb2,
                  Analyze |-> res.analyze,
                  Cycle |-> Frac(lsm_metadata.TimeIntervall * 1000, 1)]]

\* LSMImporter.read_single_measurement_metadata
LSM_read_single_measurement_metadata(fle, fle_ind, default_row) ==
    LET lst_row == convert_lsm_metadata_to_lst_row(fle_ind + 1, fle.path,
                                                   fle.lsm_metadata, default_row)
    IN  IF lst_row.raised THEN FrameRaised ELSE Frame(<<lst_row.row>>)

\* the method the importer with this LE_loadExp runs
read_single_measurement_metadata(loadExp, fle, fle_ind, default_row) ==
    CASE loadExp = 3 ->
           OneWavelength_read_single_measurement_metadata(fle, fle_ind, default_row)
      [] loadExp = 4 ->
           TwoWavelength_read_single_measurement_metadata(fle, fle_ind, default_row)
      [] loadExp = 20 ->
           LSM_read_single_measurement_metadata(fle, fle_ind, default_row)

(***************************************************************************)
(* get_importer_class and the constructors                                 *)
(***************************************************************************)
NoClass == "none"

\* a slip: the last branch returns a class instead of raising
get_importer_class_Fallback(LE_loadExp) ==
    IF LE_loadExp = 3 THEN [raised |-> FALSE, class |-> "TillImporterOneWavelength"]
    ELSE IF LE_loadExp = 4
    THEN [raised |-> FALSE, class |-> "TillImporterTwoWavelength"]
    ELSE [raised |-> FALSE, class |-> "LSMImporter"]

\* get_importer_class: the class, or NotImplementedError raised
get_importer_class(LE_loadExp) ==
    IF LE_loadExp = 3 THEN [raised |-> FALSE, class |-> "TillImporterOneWavelength"]
    ELSE IF LE_loadExp = 4
    THEN [raised |-> FALSE, class |-> "TillImporterTwoWavelength"]
    ELSE IF LE_loadExp = 20 THEN [raised |-> FALSE, class |-> "LSMImporter"]
    ELSE [raised |-> TRUE, class |-> NoClass]

\* self.LE_loadExp as the constructor of the class sets it
ConstructedLoadExp(class) ==
    CASE class = "TillImporterOneWavelength" -> 3
      [] class = "TillImporterTwoWavelength" -> 4
      [] class = "LSMImporter" -> 20

(***************************************************************************)
(* ask_for_files and get_animal_tag_raw_data_mapping                       *)
(***************************************************************************)
\* a dict: a function on the set of its keys
EmptyDict == [k \in {} |-> <<>>]
DictSet(d, key, value) ==
    [k \in DOMAIN d \cup {key} |-> IF k = key THEN value ELSE d[k]]

\* fle_path.name.split(".")[0]
TillAnimalTag(fle) == split(PathName(Path(fle)), {"."})[1]

\* the loop of TillImporter.get_animal_tag_raw_data_mapping over the files from
\* position i on: each file is stored as the whole list of its tag
RECURSIVE TillMappingFrom(_, _, _)
TillMappingFrom(files_chosen, i, dict2return) ==
    IF i > Len(files_chosen) THEN dict2return
    ELSE TillMappingFrom(files_chosen, i + 1,
             DictSet(dict2return, TillAnimalTag(files_chosen[i]),
                     <<files_chosen[i]>>))

\* TillImporter.get_animal_tag_raw_data_mapping
TillImporter_get_animal_tag_raw_data_mapping(files_chosen) ==
    IF Len(files_chosen) = 0 THEN [raised |-> FALSE, mapping |-> EmptyDict]
    ELSE [raised |-> FALSE,
          mapping |-> TillMappingFrom(files_chosen, 1, EmptyDict)]

\* LSMImporter.get_animal_tag_raw_data_mapping: the assertion on the parents
LSMImporter_get_animal_tag_raw_data_mapping(files_chosen) ==
    IF Len(files_chosen) = 0 THEN [raised |-> FALSE, mapping |-> EmptyDict]
    ELSE LET parents == [i \in 1..Len(files_chosen) |->
                            PathParent(Path(files_chosen[i]))]
         IN  IF \A i \in 1..Len(parents) : parents[i] = parents[1]
             THEN [raised |-> FALSE,
                   mapping |-> DictSet(EmptyDict,
                                       PathName(PathParent(parents[1])),
                                       files_chosen)]
             ELSE [raised |-> TRUE, mapping |-> EmptyDict]

get_animal_tag_raw_data_mapping(loadExp, files_chosen) ==
    IF loadExp = 20 THEN LSMImporter_get_animal_tag_raw_data_mapping(files_chosen)
    ELSE TillImporter_get_animal_tag_raw_data_mapping(files_chosen)

\* what easygui.fileopenbox returns with multiple=True: None, or the list of
\* the files chosen
NoneChosen == [none |-> TRUE, files |-> <<>>]
Chosen(files) == [none |-> FALSE, files |-> files]

\* the check ask_for_files makes on the selection before it groups it
SelectionInDataDir(files, default_dir) == startswith(files[1], default_dir)

\* BaseImporter.ask_for_files: error is "IOError" (user abort), "AssertionError"
\* (the selection is not in default_dir), "AssertionError in mapping" or "none"
ask_for_files(loadExp, default_dir, files_chosen) ==
    IF files_chosen.none THEN [error |-> "IOError", mapping |-> EmptyDict]
    ELSE IF ~SelectionInDataDir(files_chosen.files, default_dir)
    THEN [error |-> "AssertionError", mapping |-> EmptyDict]
    ELSE LET m == get_animal_tag_raw_data_mapping(loadExp, files_chosen.files)
         IN  IF m.raised
             THEN [error |-> "AssertionError in mapping", mapping |-> EmptyDict]
             ELSE [error |-> "none", mapping |-> m.mapping]

(***************************************************************************)
(* Inputs                                                                  *)
(***************************************************************************)
\* Location values of vws.log records: d\m.pst, d\m.ps, d\maps, d\m.tif, m.pst,
\* m.ps, d\e\a.b.pst
Loc_pst == <<"d", "\\", "m", ".", "p", "s", "t">>
Loc_ps == <<"d", "\\", "m", ".", "p", "s">>
Loc_maps == <<"d", "\\", "m", "a", "p", "s">>
Loc_tif == <<"d", "\\", "m", ".", "t", "i", "f">>
Loc_bare_pst == <<"m", ".", "p", "s", "t">>
Loc_bare_ps == <<"m", ".", "p", "s">>
Loc_deep == <<"d", "\\", "e", "\\", "a", ".", "b", ".", "p", "s", "t">>

Locations == {Loc_pst, Loc_ps, Loc_maps, Loc_tif, Loc_bare_pst, Loc_bare_ps, Loc_deep}

\* Timing_ms values: "0 100 200 300", "0 8", "5", "0 x", "", "0  5", " 0 7 "
Timing_two == <<"0", " ", "8">>
Timing_four == <<"0", " ", "1", "0", "0", " ", "2", "0", "0", " ", "3", "0", "0">>
Timing_one == <<"5">>
Timing_letter == <<"0", " ", "x">>
Timing_empty == <<>>
Timing_two_blanks == <<"0", " ", " ", "5">>
Timing_padded == <<" ", "0", " ", "7", " ">>

Timings ==
    {Timing_four, Timing_two, Timing_one, Timing_letter, Timing_empty,
     Timing_two_blanks, Timing_padded}

\* the values of Analyze in default_values: absent, 0 or 1
DefaultAnalyzes == {Absent, <<0>>, <<1>>}
DefaultRows == {[Analyze |-> a, dbb2 |-> Absent] : a \in DefaultAnalyzes}

ImportDefaultRows == {[Analyze |-> a, dbb2 |-> Absent] : a \in {<<0>>, <<1>>}}

RawRecord(t, l, pass) == [Timing_ms |-> t, Location |-> l, pass |-> pass]

\* the records of a vws.log file: the timing parses or not, the location
\* resolves, does not, or makes the resolver raise, the filter passes or
\* rejects the record
RawRecords ==
    {RawRecord(Timing_two, Loc_pst, TRUE), RawRecord(Timing_one, Loc_pst, TRUE),
     RawRecord(Timing_two, Loc_maps, TRUE), RawRecord(Timing_two, Loc_bare_pst, TRUE),
     RawRecord(Timing_two, Loc_pst, FALSE)}

\* the sequences of at most n records of the set records
RecordSeqs(records, n) == UNION {[1..k -> records] : k \in 0..Min(n, MaxRecords)}

\* paths of .lsm files: r\a\f.lsm, r\a\f.tif, f.lsm
Lsm_deep == <<"r", "\\", "a", "\\", "f", ".", "l", "s", "m">>
Lsm_tif == <<"r", "\\", "a", "\\", "f", ".", "t", "i", "f">>
Lsm_bare == <<"f", ".", "l", "s", "m">>
LsmPaths == {Lsm_deep, Lsm_tif, Lsm_bare}

NoMetadata == [TimeIntervall |-> 0]

\* what one raw data file holds, for the importer with this LE_loadExp: the
\* records of a vws.log file (a; for two wavelengths the 340 nm records a and
\* the 380 nm records b), or the path and metadata of an .lsm file
\* records are the records a file may hold, room is the number of records (or
\* .lsm files) that may still be read
RawFiles(loadExp, records, room) ==
    CASE loadExp = 3 ->
           {[a |-> s, b |-> <<>>, path |-> <<>>, lsm_metadata |-> NoMetadata] :
               s \in RecordSeqs(records, room)}
      [] loadExp = 4 ->
           UNION {{[a |-> s, b |-> t, path |-> <<>>, lsm_metadata |-> NoMetadata] :
                      t \in RecordSeqs(records, room - Len(s))} :
                     s \in RecordSeqs(records, room)}
      [] loadExp = 20 ->
           {[a |-> <<>>, b |-> <<>>, path |-> q,
             lsm_metadata |-> [TimeIntervall |-> 2]] : q \in LsmPaths}

Max(x, y) == IF x >= y THEN x ELSE y

\* what was read so far: the records of the files, a file without records and
\* an .lsm file counting as one
RECURSIVE Volume(_)
Volume(files) ==
    IF files = <<>> THEN 0
    ELSE Max(1, Len(Head(files).a) + Len(Head(files).b)) + Volume(Tail(files))

(***************************************************************************)
(* State                                                                   *)
(***************************************************************************)
VARIABLES
    LE_loadExp,      \* the importer at work: its LE_loadExp
    default_values,  \* its default row
    fle_ind,         \* the loop index of import_metadata
    combined_df,     \* the rows of combined_df
    files_read,      \* raw_data_files as far as the loop went: what each
                     \* file read so far held, in order
    pc,              \* import_metadata: "loop", "done" (returned), "raised"
    cv_series,       \* the record given to convert_vws_names_to_lst_names
    cv_default,      \* its default row
    cv_result,       \* its outcome
    cv_pc,           \* "call" before, "done" after
    code,            \* the code given to get_importer_class
    importer_class,  \* its outcome
    instance,        \* LE_loadExp of the constructed importer, 0 before
    default_dir,     \* str(default_dir)
    files_chosen,    \* what the file dialog returned
    ask_result,      \* the outcome of ask_for_files
    fpc              \* "select", "construct", "ask", "asked", "unsupported"

import_vars == <<LE_loadExp, default_values, fle_ind, combined_df, files_read,
                 pc>>
convert_vars == <<cv_series, cv_default, cv_result, cv_pc>>
front_vars == <<code, importer_class, instance, default_dir, files_chosen,
                ask_result, fpc>>
vars == <<import_vars, convert_vars, front_vars>>

NoRow == [Measu |-> 0, DBB1 |-> <<>>, dbb2 |-> Absent, Analyze |-> 0,
          Cycle |-> Frac(0, 1)]
NoResult == [raised |-> FALSE, expected_data_file |-> <<>>, analyze |-> 0,
             row |-> NoRow]
NoAsk == [error |-> "not called", mapping |-> EmptyDict]

ImportIdle ==
    /\ LE_loadExp = 0
    /\ default_values = [Analyze |-> Absent, dbb2 |-> Absent]
    /\ fle_ind = 0
    /\ combined_df = <<>>
    /\ files_read = <<>>
    /\ pc = "idle"

ConvertIdle ==
    /\ cv_series = [index |-> 0, Location |-> <<>>, Timing_ms |-> <<>>]
    /\ cv_default = [Analyze |-> Absent, dbb2 |-> Absent]
    /\ cv_result = NoResult
    /\ cv_pc = "idle"

FrontIdle ==
    /\ code = 0
    /\ importer_class = [raised |-> FALSE, class |-> NoClass]
    /\ instance = 0
    /\ default_dir = <<>>
    /\ files_chosen = NoneChosen
    /\ ask_result = NoAsk
    /\ fpc = "idle"

(***************************************************************************)
(* import_metadata                                                         *)
(***************************************************************************)
\* a slip: the frame of the file replaces the table
AppendFrame_Replace(df, rows) == rows

\* combined_df.append(df, ignore_index=True)
AppendFrame(df, rows) == df \o rows

ImportInit ==
    /\ LE_loadExp \in {3, 4, 20}
    /\ default_values \in ImportDefaultRows
    /\ fle_ind = 0
    /\ combined_df = <<>>
    /\ files_read = <<>>
    /\ pc = "loop"

\* one turn of the loop of import_metadata: raw_data_files has a next file,
\* which is read and whose rows are appended; an exception of
\* read_single_measurement_metadata leaves the call
ReadFileOf(records) ==
    /\ pc = "loop"
    /\ fle_ind < MaxFiles
    /\ Volume(files_read) < MaxRows
    /\ \E fle \in RawFiles(LE_loadExp, records, MaxRows - Volume(files_read)) :
         LET df == read_single_measurement_metadata(LE_loadExp, fle, fle_ind,
                                                    default_values)
         IN  /\ files_read' = Append(files_read, fle)
             /\ IF df.raised
                THEN /\ pc' = "raised"
                     /\ UNCHANGED <<fle_ind, combined_df>>
                ELSE /\ combined_df' = AppendFrame(combined_df, df.rows)
                     /\ fle_ind' = fle_ind + 1
                     /\ pc' = "loop"
    /\ UNCHANGED <<LE_loadExp, default_values>>
    /\ UNCHANGED <<convert_vars, front_vars>>

\* raw_data_files has no further file: the loop is over and combined_df is
\* returned
ReturnCombined ==
    /\ pc = "loop"
    /\ pc' = "done"
    /\ UNCHANGED <<LE_loadExp, default_values, fle_ind, combined_df, files_read>>
    /\ UNCHANGED <<convert_vars, front_vars>>

\* measurement_filter is any predicate of the records
ReadFile == ReadFileOf(RawRecords)

\* measurement_filter accepts every record
ReadFileUnfiltered == ReadFileOf({r \in RawRecords : r.pass})

Init == ImportInit /\ ConvertIdle /\ FrontIdle
Next == ReadFile \/ ReturnCombined
Spec == Init /\ [][Next]_vars

NextUnfiltered == ReadFileUnfiltered \/ ReturnCombined
SpecUnfiltered == Init /\ [][NextUnfiltered]_vars

(***************************************************************************)
(* One record through additional_cols_func and                             *)
(* convert_vws_names_to_lst_names                                          *)
(***************************************************************************)
ConvertInit ==
    /\ cv_series \in {[index |-> i, Location |-> l, Timing_ms |-> t] :
                         i \in 0..MaxRecords, l \in Locations, t \in Timings}
    /\ cv_default \in DefaultRows
    /\ cv_result = NoResult
    /\ cv_pc = "call"

\* the reader adds the columns of additional_cols_func to the record, and the
\* importer converts it
ConvertRecord ==
    /\ cv_pc = "call"
    /\ cv_result' = convert_vws_names_to_lst_names(
                        Series(cv_series, cv_series.index), cv_default)
    /\ cv_pc' = "done"
    /\ UNCHANGED <<cv_series, cv_default>>
    /\ UNCHANGED <<import_vars, front_vars>>

InitConvert == ConvertInit /\ ImportIdle /\ FrontIdle
NextConvert == ConvertRecord
SpecConvert == InitConvert /\ [][NextConvert]_vars

(***************************************************************************)
(* get_importer_class, the constructor, ask_for_files                      *)
(***************************************************************************)
\* str(default_dir): /r and /r/
Dir_r == <<"/", "r">>
Dir_r_slash == <<"/", "r", "/">>
DefaultDirs == {Dir_r, Dir_r_slash}

\* files of the dialog: /r/a.v.l, /r/b.v.l, /r/s/a.v.l, /r2/a.v.l, /q/c.v.l
File_r_a == <<"/", "r", "/", "a", ".", "v", ".", "l">>
File_r_b == <<"/", "r", "/", "b", ".", "v", ".", "l">>
File_r_s_a == <<"/", "r", "/", "s", "/", "a", ".", "v", ".", "l">>
File_r2_a == <<"/", "r", "2", "/", "a", ".", "v", ".", "l">>
File_q_c == <<"/", "q", "/", "c", ".", "v", ".", "l">>
DialogFiles == {File_r_a, File_r_b, File_r_s_a, File_r2_a, File_q_c}

\* the selections of the dialog: None, or one file or more
Selections ==
    {NoneChosen}
    \cup {Chosen(fs) : fs \in UNION {[1..n -> DialogFiles] : n \in 1..MaxChosen}}

FrontInit ==
    /\ code \in -1..MaxCode
    /\ importer_class = [raised |-> FALSE, class |-> NoClass]
    /\ instance = 0
    /\ default_dir = <<>>
    /\ files_chosen = NoneChosen
    /\ ask_result = NoAsk
    /\ fpc = "select"

GetImporterClass ==
    /\ fpc = "select"
    /\ importer_class' = get_importer_class(code)
    /\ fpc' = IF importer_class'.raised THEN "unsupported" ELSE "construct"
    /\ UNCHANGED <<code, instance, default_dir, files_chosen, ask_result>>
    /\ UNCHANGED <<import_vars, convert_vars>>

\* importer_class(default_values)
Construct ==
    /\ fpc = "construct"
    /\ instance' = ConstructedLoadExp(importer_class.class)
    /\ fpc' = "ask"
    /\ UNCHANGED <<code, importer_class, default_dir, files_chosen, ask_result>>
    /\ UNCHANGED <<import_vars, convert_vars>>

AskForFiles ==
    /\ fpc = "ask"
    /\ \E dir \in DefaultDirs, chosen \in Selections :
         /\ default_dir' = dir
         /\ files_chosen' = chosen
         /\ ask_result' = ask_for_files(instance, dir, chosen)
    /\ fpc' = "asked"
    /\ UNCHANGED <<code, importer_class, instance>>
    /\ UNCHANGED <<import_vars, convert_vars>>

InitFront == FrontInit /\ ImportIdle /\ ConvertIdle
NextFront == GetImporterClass \/ Construct \/ AskForFiles
SpecFront == InitFront /\ [][NextFront]_vars

(***************************************************************************)
(* What the properties are stated with                                     *)
(***************************************************************************)
\* the positions, from i on, of the records that pass the filter
RECURSIVE PassingPositions(_, _)
PassingPositions(recs, i) ==
    IF i > Len(recs) THEN <<>>
    ELSE (IF recs[i].pass THEN <<i>> ELSE <<>>) \o PassingPositions(recs, i + 1)

PassCount(recs) == Cardinality({i \in 1..Len(recs) : recs[i].pass})

\* the files whose rows combined_df holds: all the files read, but for the one
\* whose reading raised
ReturnedFiles ==
    IF pc = "raised" THEN SubSeq(files_read, 1, Len(files_read) - 1)
    ELSE files_read

\* the records of a file that are converted, in the order of their rows, each
\* with its position in the file: every passing record for one wavelength, the
\* pairs, 340 nm first, for two
ConvertedOf(fle) ==
    LET pa == PassingPositions(fle.a, 1)
        pb == PassingPositions(fle.b, 1)
    IN  IF LE_loadExp = 3
        THEN [k \in 1..Len(pa) |-> [rec |-> fle.a[pa[k]], position |-> pa[k]]]
        ELSE Flatten([k \in 1..Min(Len(pa), Len(pb)) |->
                 << [rec |-> fle.a[pa[k]], position |-> 2 * pa[k] - 1],
                    [rec |-> fle.b[pb[k]], position |-> 2 * pb[k]] >>])

Converted(files) == Flatten([i \in 1..Len(files) |-> ConvertedOf(files[i])])

\* the location ends in no recognized movie-file extension
Unresolved(location) == ~endswith(location, Ext_pst) /\ ~endswith(location, Ext_ps)

\* the rows a file must give
RowsOf(fle) ==
    CASE LE_loadExp = 3 -> PassCount(fle.a)
      [] LE_loadExp = 4 -> 2 * Min(PassCount(fle.a), PassCount(fle.b))
      [] LE_loadExp = 20 -> 1

RECURSIVE RowsOfAll(_)
RowsOfAll(files) ==
    IF files = <<>> THEN 0 ELSE RowsOf(Head(files)) + RowsOfAll(Tail(files))

\* the path has the directory as a leading run of its components
InsideRoot(fle, dir) ==
    LET root == Path(dir)
        parts == Path(fle)
    IN  Len(parts) > Len(root) /\ SubSeq(parts, 1, Len(root)) = root

RECURSIVE SumOfLens(_, _)
SumOfLens(d, keys) ==
    IF keys = {} THEN 0
    ELSE LET k == CHOOSE x \in keys : TRUE
         IN  Len(d[k]) + SumOfLens(d, keys \ {k})

(***************************************************************************)
(* Properties                                                              *)
(***************************************************************************)
\* C1: the Measu values of the table import_metadata returns are strictly
\* increasing in row order (so pairwise distinct) and start at 1, for every
\* importer and every list of files.
C1_MeasuStrictlyIncreasingFromOne ==
    pc = "done" =>
        /\ \A i \in 1..Len(combined_df) - 1 :
               combined_df[i].Measu < combined_df[i + 1].Measu
        /\ combined_df # <<>> => combined_df[1].Measu = 1

\* C2: the row of a record whose Timing_ms cannot be turned into an interval
\* has Cycle = -1 and Analyze = 0, whatever the default row's Analyze and also
\* when the location resolves.
C2_UnparsedTimingNotAnalyzed ==
    (/\ cv_pc = "done"
     /\ ~cv_result.raised
     /\ calculate_dt_from_timing_ms(cv_series.Timing_ms).raised)
    => /\ FracEq(cv_result.row.Cycle, MinusOne)
       /\ cv_result.row.Analyze = 0

\* C3: the table holds, for one wavelength, one row for each record that passes
\* the filter; for two wavelengths, two rows for each pair, the pairs of a file
\* being as many as its shorter sequence has records; for image series, one row
\* for each file. No file gives no row.
C3_RowCount == Len(combined_df) = RowsOfAll(ReturnedFiles)

C3_Witness ==
    /\ pc = "done"
    /\ LE_loadExp = 4
    /\ Len(files_read) = 2
    /\ Len(combined_df) = 2
    /\ \E i \in 1..2 :
           /\ PassCount(files_read[i].a) = 2
           /\ PassCount(files_read[i].b) = 1

\* C4: ask_for_files fails with the user-abort error when nothing was chosen,
\* and with the validation error, returning no mapping, when any of the chosen
\* files lies outside the root directory; a sibling directory whose name
\* starts with the root's is outside.
C4_AnyFileOutsideRootRejected ==
    fpc = "asked" =>
        /\ files_chosen.none => ask_result.error = "IOError"
        /\ (/\ ~files_chosen.none
            /\ \E i \in 1..Len(files_chosen.files) :
                   ~InsideRoot(files_chosen.files[i], default_dir))
           => /\ ask_result.error = "AssertionError"
              /\ DOMAIN ask_result.mapping = {}

\* C5: with two wavelengths, the second row of every pair has Analyze = 0.
C5_SecondRowNotAnalyzed ==
    LE_loadExp = 4 =>
        \A k \in 1..Len(combined_df) :
            k % 2 = 0 => combined_df[k].Analyze = 0

\* a second row whose location resolved and whose timing parsed, under a default
\* row with Analyze = 1
C5_Witness ==
    /\ pc = "done"
    /\ LE_loadExp = 4
    /\ default_values.Analyze = <<1>>
    /\ \E k \in 1..Len(combined_df) :
           /\ k % 2 = 0
           /\ combined_df[k].DBB1 # WrongExtension
           /\ ~FracEq(combined_df[k].Cycle, MinusOne)
           /\ combined_df[k - 1].Analyze = 1

\* C6: for the Till importers, every converted record has its row; the row of a
\* record whose location ends in no recognized extension has Analyze = 0 and
\* DBB1 = "wrong extension"; a row has Analyze = 1 only if its location
\* resolved; and reading a file raises only if a converted record of it has a
\* location that ends in a recognized extension.
C6_UnresolvedKeptNotAnalyzed ==
    LE_loadExp \in {3, 4} =>
        LET records == Converted(ReturnedFiles)
        IN  /\ Len(combined_df) = Len(records)
            /\ \A i \in 1..Len(records) :
                   /\ Unresolved(records[i].rec.Location)
                      => /\ combined_df[i].Analyze = 0
                         /\ combined_df[i].DBB1 = WrongExtension
                   /\ combined_df[i].Analyze = 1
                      => ~Unresolved(records[i].rec.Location)
            /\ pc = "raised"
               => LET last == ConvertedOf(files_read[Len(files_read)])
                  IN  \E i \in 1..Len(last) : ~Unresolved(last[i].rec.Location)

C6_Witness ==
    /\ pc = "done"
    /\ LE_loadExp = 3
    /\ default_values.Analyze = <<1>>
    /\ Len(combined_df) >= 2
    /\ \E i, j \in 1..Len(combined_df) :
           /\ Unresolved(Converted(files_read)[i].rec.Location)
           /\ combined_df[i].DBB1 = WrongExtension
           /\ combined_df[j].Analyze = 1

\* C7: a location ending in .ps goes to the resolver with a t appended and
\* resolves to (1, parent directory name / stem); a location ending in neither
\* extension goes to the resolver unchanged and resolves to
\* (0, "wrong extension").
C7_OnlyPsLocationsChanged ==
    cv_pc = "done" =>
        /\ endswith(cv_series.Location, Ext_ps)
           => /\ cv_result.expected_data_file = Append(cv_series.Location, "t")
              /\ ~cv_result.raised
              /\ cv_result.analyze = 1
              /\ LET parts == PureWindowsPath(cv_result.expected_data_file)
                 IN  cv_result.row.DBB1
                         = parts[Len(parts) - 1] \o Slash \o PathStem(parts)
        /\ Unresolved(cv_series.Location)
           => /\ cv_result.expected_data_file = cv_series.Location
              /\ ~cv_result.raised
              /\ cv_result.analyze = 0
              /\ cv_result.row.DBB1 = WrongExtension

\* C8: get_importer_class gives the one-wavelength importer for 3, the
\* two-wavelength importer for 4, the LSM importer for 20 and raises for every
\* other code; the constructed importer has the code as its LE_loadExp.
C8_ImporterClassByCode ==
    fpc # "select" =>
        /\ code = 3 => importer_class
                         = [raised |-> FALSE, class |-> "TillImporterOneWavelength"]
        /\ code = 4 => importer_class
                         = [raised |-> FALSE, class |-> "TillImporterTwoWavelength"]
        /\ code = 20 => importer_class = [raised |-> FALSE, class |-> "LSMImporter"]
        /\ code \notin {3, 4, 20}
           => /\ importer_class.raised
              /\ importer_class.class = NoClass
              /\ fpc = "unsupported"
        /\ fpc \in {"ask", "asked"} => instance = code

C8_Witness == fpc = "ask" /\ instance = 20 /\ code = 20

\* C9: with two wavelengths the rows come in pairs, in file order and then in
\* pair order, the 340 nm row first; the 340 nm row has the resolved path of its
\* own record as DBB1 and the DBB1 of the 380 nm row as dbb2.
C9_PairsInOrder ==
    LE_loadExp = 4 =>
        LET records == Converted(ReturnedFiles)
            resolved(i) == TillImporter_get_path_relative_to_data_dir(
                               ExpectedDataFile(records[i].rec.Location)).dbb1
        IN  /\ Len(combined_df) = Len(records)
            /\ \A i \in 1..Len(records) :
                   /\ combined_df[i].Measu = records[i].position
                   /\ combined_df[i].DBB1 = resolved(i)
                   /\ i % 2 = 1 => combined_df[i].dbb2 = <<resolved(i + 1)>>
                   /\ i % 2 = 1 => combined_df[i].dbb2 = <<combined_df[i + 1].DBB1>>

C9_Witness ==
    /\ pc = "done"
    /\ LE_loadExp = 4
    /\ Len(files_read) = 2
    /\ Len(combined_df) = 4
    /\ combined_df[1].DBB1 # WrongExtension
    /\ combined_df[1].dbb2 = <<WrongExtension>>
    /\ combined_df[3].DBB1 = WrongExtension
    /\ combined_df[3].dbb2 # <<WrongExtension>>

\* C10: for the Till importers the mapping of ask_for_files holds every chosen
\* file in the list of its own tag, and as many files as were chosen.
C10_MappingKeepsEveryFile ==
    (fpc = "asked" /\ instance \in {3, 4} /\ ask_result.error = "none") =>
        LET files == files_chosen.files
            mapping == ask_result.mapping
        IN  /\ \A i \in 1..Len(files) :
                   /\ TillAnimalTag(files[i]) \in DOMAIN mapping
                   /\ \E j \in 1..Len(mapping[TillAnimalTag(files[i])]) :
                          mapping[TillAnimalTag(files[i])][j] = files[i]
            /\ SumOfLens(mapping, DOMAIN mapping)
                   = Cardinality({files[i] : i \in 1..Len(files)})

=============================================================================
